---- MODULE Spec2Model ----
(***************************************************************************)
(* Model of src/main.rs: main's greeting and BinaryTree usage, the         *)
(* recursive BinaryTree::add, and the match of rough_time_to_english.      *)
(*                                                                         *)
(* Three specifications:                                                   *)
(*   SpecMain     main from its first line to its last: the println!,      *)
(*                `let mut tree`, tree.add("Mercury"), tree.add("Venus"),  *)
(*                the `...` that stands for further tree.add calls.        *)
(*   Spec         BinaryTree::add called with arbitrary values on a tree   *)
(*                that starts Empty (the method of the generic type).      *)
(*   SpecEnglish  the match of rough_time_to_english, arm by arm, on       *)
(*                every RoughTime value, for the arms as written and for   *)
(*                the arms with InTheFuture(unit, 1) inserted.             *)
(*                                                                         *)
(* Fragments of main that call names defined nowhere in the file (meadow,  *)
(* settings, photo, lines, present_cheesy_anti_robot_task, ...) have no    *)
(* behaviour the file determines and are not modelled.                     *)
(***************************************************************************)
EXTENDS Integers, Sequences, FiniteSets, TLC

VARIABLES
    pc,       \* main's position
    out,      \* standard output: the sequence of lines printed
    tree,     \* main's `tree`
    apc,      \* BinaryTree::add: "idle" (no call active) or "match"
    self,     \* the place `self` of the active add call, as a path from the root
    value,    \* the argument `value` of the active add call
    rt,       \* rough_time_to_english: the argument
    arms,     \* the arms of its match, in source order
    arm,      \* the arm being tried
    rpc,      \* "match" while arms are tried, "done" once one matched
    english   \* the returned String

vars == <<pc, out, tree, apc, self, value, rt, arms, arm, rpc, english>>

(***************************************************************************)
(* Bounds                                                                  *)
(***************************************************************************)
MaxValue == 3     \* values of the ordered type T are 0..MaxValue
MaxNodes == 5     \* add is not called on a tree that holds MaxNodes elements
MaxCount == 2     \* the u32 count of a RoughTime is 0..MaxCount

Values == 0..MaxValue

\* "Mercury" < "Venus" in the order of &str; the model keeps their ranks.
Mercury == 1
Venus == 2

(***************************************************************************)
(* enum BinaryTree<T>, struct TreeNode<T>                                  *)
(***************************************************************************)
Empty == [tag |-> "Empty"]

NonEmpty(node) == [tag |-> "NonEmpty", node |-> node]

TreeNode(element, left, right) ==
    [element |-> element, left |-> left, right |-> right]

\* The subtree a chain of `node.left` / `node.right` borrows leads to.
RECURSIVE Deref(_, _)
Deref(t, path) ==
    IF path = <<>> THEN t
    ELSE IF Head(path) = "left" THEN Deref(t.node.left, Tail(path))
    ELSE Deref(t.node.right, Tail(path))

\* The tree after `*place = new`, place being the subtree at path.
RECURSIVE Assign(_, _, _)
Assign(t, path, new) ==
    IF path = <<>> THEN new
    ELSE IF Head(path) = "left"
         THEN NonEmpty(TreeNode(t.node.element,
                                Assign(t.node.left, Tail(path), new),
                                t.node.right))
         ELSE NonEmpty(TreeNode(t.node.element,
                                t.node.left,
                                Assign(t.node.right, Tail(path), new)))

RECURSIVE Size(_)
Size(t) ==
    IF t.tag = "Empty" THEN 0
    ELSE 1 + Size(t.node.left) + Size(t.node.right)

(***************************************************************************)
(* BinaryTree::add                                                         *)
(***************************************************************************)
GoesLeftStrict(v, element) == v < element

\* `if value <= node.element`
GoesLeft(v, element) == v <= element

NewNodeNotStored(v) == Empty

\* BinaryTree::NonEmpty(Box::new(TreeNode { element: value, left: Empty, right: Empty }))
NewNode(v) == NonEmpty(TreeNode(v, Empty, Empty))

\* tree.add(v): the call binds self to the whole tree.
Call(v) ==
    /\ apc = "idle"
    /\ apc' = "match"
    /\ self' = <<>>
    /\ value' = v

\* arm BinaryTree::Empty => *self = NonEmpty(...), and the calls return
AddEmpty ==
    /\ apc = "match"
    /\ Deref(tree, self).tag = "Empty"
    /\ tree' = Assign(tree, self, NewNode(value))
    /\ apc' = "idle"
    /\ UNCHANGED <<pc, out, self, value, rt, arms, arm, rpc, english>>

\* arm BinaryTree::NonEmpty(ref mut node), then branch: node.left.add(value)
AddLeft ==
    /\ apc = "match"
    /\ Deref(tree, self).tag = "NonEmpty"
    /\ GoesLeft(value, Deref(tree, self).node.element)
    /\ self' = Append(self, "left")
    /\ UNCHANGED <<pc, out, tree, apc, value, rt, arms, arm, rpc, english>>

\* arm BinaryTree::NonEmpty(ref mut node), else branch: node.right.add(value)
AddRight ==
    /\ apc = "match"
    /\ Deref(tree, self).tag = "NonEmpty"
    /\ ~GoesLeft(value, Deref(tree, self).node.element)
    /\ self' = Append(self, "right")
    /\ UNCHANGED <<pc, out, tree, apc, value, rt, arms, arm, rpc, english>>

\* A caller of add, with any value of the ordered type.
CallAdd ==
    /\ pc = "caller"
    /\ Size(tree) < MaxNodes
    /\ \E v \in Values : Call(v)
    /\ UNCHANGED <<pc, out, tree, rt, arms, arm, rpc, english>>

(***************************************************************************)
(* main                                                                    *)
(***************************************************************************)
GreetingWithoutComma == "Hello world!"

Greeting == "Hello, world!"

\* println!("Hello, world!");
Println ==
    /\ pc = "start"
    /\ out' = Append(out, Greeting)
    /\ pc' = "let_tree"
    /\ UNCHANGED <<tree, apc, self, value, rt, arms, arm, rpc, english>>

\* let mut tree = BinaryTree::Empty;
LetTree ==
    /\ pc = "let_tree"
    /\ tree' = Empty
    /\ pc' = "add_mercury"
    /\ UNCHANGED <<out, apc, self, value, rt, arms, arm, rpc, english>>

\* tree.add("Mercury");
AddMercury ==
    /\ pc = "add_mercury"
    /\ Call(Mercury)
    /\ pc' = "add_venus"
    /\ UNCHANGED <<out, tree, rt, arms, arm, rpc, english>>

\* tree.add("Venus");
AddVenus ==
    /\ pc = "add_venus"
    /\ Call(Venus)
    /\ pc' = "more"
    /\ UNCHANGED <<out, tree, rt, arms, arm, rpc, english>>

\* `...`: further tree.add calls
AddMore ==
    /\ pc = "more"
    /\ Size(tree) < MaxNodes
    /\ \E v \in Values : Call(v)
    /\ UNCHANGED <<pc, out, tree, rt, arms, arm, rpc, english>>

\* the closing brace of main
Return ==
    /\ pc = "more"
    /\ apc = "idle"
    /\ pc' = "done"
    /\ UNCHANGED <<out, tree, apc, self, value, rt, arms, arm, rpc, english>>

(***************************************************************************)
(* enum RoughTime, TimeUnit                                                *)
(***************************************************************************)
\* TimeUnit is used and not defined in the file; its comments name the
\* variants Months and Hours and give "months" and "hour" as their words.
TimeUnit == {"Months", "Hours"}

pluralAsSingular(units) == IF units = "Months" THEN "month" ELSE "hour"

plural(units) == IF units = "Months" THEN "months" ELSE "hours"

singular(units) == IF units = "Months" THEN "month" ELSE "hour"

Counts == 0..MaxCount

InThePast(units, count) ==
    [variant |-> "InThePast", units |-> units, count |-> count]

JustNow == [variant |-> "JustNow"]

InTheFuture(units, count) ==
    [variant |-> "InTheFuture", units |-> units, count |-> count]

RoughTime ==
    {InThePast(u, c) : u \in TimeUnit, c \in Counts}
    \cup {JustNow}
    \cup {InTheFuture(u, c) : u \in TimeUnit, c \in Counts}

(***************************************************************************)
(* Patterns. A pattern names a variant and, for a variant with fields, a   *)
(* subpattern for the count: an identifier, which matches anything and     *)
(* binds it, or an integer literal, which matches that number only.  The   *)
(* units subpattern is an identifier in every arm of the file.             *)
(***************************************************************************)
Ident == [kind |-> "ident"]

Literal(n) == [kind |-> "literal", n |-> n]

SubMatches(sub, x) == IF sub.kind = "ident" THEN TRUE ELSE sub.n = x

MatchesIgnoringLiteral(pattern, v) == pattern.variant = v.variant

\* left-to-right scan: the variant, then each component
Matches(pattern, v) ==
    /\ pattern.variant = v.variant
    /\ IF pattern.variant = "JustNow" THEN TRUE
       ELSE SubMatches(pattern.count, v.count)

\* RoughTime::InThePast(units, count) => format!("{} {} ago", count, units.plural())
PastArm == [variant |-> "InThePast", count |-> Ident, body |-> "ago"]

\* RoughTime::JustNow => format!("just now")
NowArm == [variant |-> "JustNow", body |-> "just now"]

\* RoughTime::InTheFuture(units, count) => format!("{} {} from now", count, units.plural())
FutureArm == [variant |-> "InTheFuture", count |-> Ident, body |-> "from now"]

\* RoughTime::InTheFuture(unit, 1) => format!("a {} from now", unit.singular())
OneArm == [variant |-> "InTheFuture", count |-> Literal(1), body |-> "a from now"]

\* the match as written
WrittenArms == <<PastArm, NowArm, FutureArm>>

\* the match with the new arm added as the i-th arm
ArmsWithOneAt(i) ==
    SubSeq(WrittenArms, 1, i - 1) \o <<OneArm>> \o SubSeq(WrittenArms, i, Len(WrittenArms))

\* the value of an arm's expression, its pattern having matched v
Format(a, v) ==
    CASE a.body = "ago" -> ToString(v.count) \o " " \o plural(v.units) \o " ago"
      [] a.body = "just now" -> "just now"
      [] a.body = "from now" -> ToString(v.count) \o " " \o plural(v.units) \o " from now"
      [] a.body = "a from now" -> "a " \o singular(v.units) \o " from now"

\* the pattern of the arm under test fails: Rust moves on to the next arm
ArmFails ==
    /\ rpc = "match"
    /\ ~Matches(arms[arm], rt)
    /\ arm' = arm + 1
    /\ UNCHANGED <<pc, out, tree, apc, self, value, rt, arms, rpc, english>>

\* the pattern of the arm under test matches: its expression is the result
ArmMatches ==
    /\ rpc = "match"
    /\ Matches(arms[arm], rt)
    /\ english' = Format(arms[arm], rt)
    /\ rpc' = "done"
    /\ UNCHANGED <<pc, out, tree, apc, self, value, rt, arms, arm>>

(***************************************************************************)
(* Specifications                                                          *)
(***************************************************************************)
InitEnglish ==
    /\ rt = JustNow
    /\ arms = WrittenArms
    /\ arm = 1
    /\ rpc = "idle"
    /\ english = ""

InitTree ==
    /\ out = <<>>
    /\ tree = Empty
    /\ apc = "idle"
    /\ self = <<>>
    /\ value = 0

\* BinaryTree::add under any caller
Init ==
    /\ pc = "caller"
    /\ InitTree
    /\ InitEnglish

Next ==
    \/ CallAdd
    \/ AddEmpty
    \/ AddLeft
    \/ AddRight

Spec == Init /\ [][Next]_vars

\* main
InitMain ==
    /\ pc = "start"
    /\ InitTree
    /\ InitEnglish

NextMain ==
    \/ Println
    \/ LetTree
    \/ AddMercury
    \/ AddVenus
    \/ AddMore
    \/ Return
    \/ AddEmpty
    \/ AddLeft
    \/ AddRight

\* main is sequential code: it takes its next step as long as it has one
SpecMain == InitMain /\ [][NextMain]_vars /\ WF_vars(NextMain)

\* rough_time_to_english on every argument, for every placement of the arms
InitMatch ==
    /\ pc = "caller"
    /\ InitTree
    /\ rt \in RoughTime
    /\ arms \in {WrittenArms} \cup {ArmsWithOneAt(i) : i \in 1..(Len(WrittenArms) + 1)}
    /\ arm = 1
    /\ rpc = "match"
    /\ english = ""

NextMatch ==
    \/ ArmFails
    \/ ArmMatches

SpecEnglish == InitMatch /\ [][NextMatch]_vars

(***************************************************************************)
(* Properties                                                              *)
(***************************************************************************)
\* The paths of the NonEmpty nodes of a tree.
RECURSIVE NodePaths(_)
NodePaths(t) ==
    IF t.tag = "Empty" THEN {}
    ELSE {<<>>}
         \cup {<<"left">> \o p : p \in NodePaths(t.node.left)}
         \cup {<<"right">> \o p : p \in NodePaths(t.node.right)}

\* The side the claim sends v to at a node holding element.
Side(v, element) == IF v <= element THEN "left" ELSE "right"

\* Every step `self` has taken so far was through a NonEmpty node, to the
\* side the comparison of value with that node's element names.
FollowsComparisons ==
    \A i \in 1..Len(self) :
        LET n == Deref(tree, SubSeq(self, 1, i - 1))
        IN  IF n.tag = "NonEmpty" THEN self[i] = Side(value, n.node.element)
            ELSE FALSE

\* C1: add on a NonEmpty (sub)tree compares value with the node's element and
\* recurses left when value <= element (equal goes left), right otherwise,
\* changing nothing on the way; the descent ends at the first Empty subtree
\* it reaches, and that subtree, and nothing else, is replaced by a new
\* NonEmpty node holding value.
C1_AddDescends ==
    [][apc = "match" =>
         /\ FollowsComparisons
         /\ IF Deref(tree, self).tag = "NonEmpty"
            THEN /\ self' = Append(self, Side(value, Deref(tree, self).node.element))
                 /\ tree' = tree
                 /\ value' = value
                 /\ apc' = "match"
            ELSE /\ apc' = "idle"
                 /\ NodePaths(tree') = NodePaths(tree) \cup {self}
                 /\ Deref(tree', self).node.element = value
                 /\ \A p \in NodePaths(tree) :
                        Deref(tree', p).node.element = Deref(tree, p).node.element
    ]_vars

\* An add has finished below a NonEmpty root: a value equal to the root's
\* element sits in its left subtree, and a larger one in its right subtree.
C1_Witness ==
    /\ apc = "idle"
    /\ IF tree.tag = "NonEmpty"
       THEN /\ IF tree.node.left.tag = "NonEmpty"
               THEN tree.node.left.node.element = tree.node.element
               ELSE FALSE
            /\ IF tree.node.right.tag = "NonEmpty"
               THEN tree.node.right.node.element > tree.node.element
               ELSE FALSE
       ELSE FALSE

\* C2: add on an Empty tree makes it NonEmpty, holding exactly one element,
\* value, with left and right subtrees both Empty.
C2_AddOnEmpty ==
    [][(apc = "match" /\ Deref(tree, self) = Empty) =>
         /\ Deref(tree', self).tag = "NonEmpty"
         /\ Size(Deref(tree', self)) = 1
         /\ Deref(tree', self).node.element = value
         /\ Deref(tree', self).node.left = Empty
         /\ Deref(tree', self).node.right = Empty
    ]_vars

\* add has returned from a call on the Empty tree.
C2_Witness ==
    /\ apc = "idle"
    /\ self = <<>>
    /\ Size(tree) = 1
    /\ tree.node.element = value

C4_RoughTimeToEnglish ==
    arms = WrittenArms =>
        /\ arm \in 1..Len(arms)
        /\ \A i \in 1..(arm - 1) : ~Matches(arms[i], rt)
        /\ rpc = "match" => english = ""
        /\ rpc = "done" =>
             /\ Matches(arms[arm], rt)
             /\ arm = (CASE rt.variant = "InThePast" -> 1
                         [] rt.variant = "JustNow" -> 2
                         [] rt.variant = "InTheFuture" -> 3)
             /\ english =
                  (CASE rt.variant = "InThePast" ->
                          ToString(rt.count) \o " " \o plural(rt.units) \o " ago"
                     [] rt.variant = "JustNow" -> "just now"
                     [] rt.variant = "InTheFuture" ->
                          ToString(rt.count) \o " " \o plural(rt.units) \o " from now")
             /\ rt = InTheFuture("Months", 1) =>
                  (arm = 3 /\ english = "1 months from now")

\* The match as written has returned for InTheFuture(Months, 1).
C4_Witness ==
    /\ arms = WrittenArms
    /\ rt = InTheFuture("Months", 1)
    /\ rpc = "done"
    /\ arm = 3
    /\ english = "1 months from now"

\* The place of arm a among the arms.
Place(a) == CHOOSE i \in 1..Len(arms) : arms[i] = a

HasOneArm == \E i \in 1..Len(arms) : arms[i] = OneArm

====
